---------------------------- MODULE Spec2Model ----------------------------
(* A model of the Http module of src/http.js: the public methods get,     *)
(* delete, post and put, the pending-request table async_keep, and the    *)
(* completion handling that onreadystatechange triggers; and of its       *)
(* URL-keyed variant, src/unnamed/part_001.                               *)
(*                                                                        *)
(* JavaScript values are records tagged by t.  A JavaScript string that   *)
(* the code inspects or encodes is a sequence of one-character strings;   *)
(* strings the code builds (keep_key, open_url, send_val) and strings it  *)
(* only passes on (header values, response bodies) are TLA+ strings.      *)
EXTENDS Integers, Sequences, FiniteSets, TLC

-----------------------------------------------------------------------------
(* Bounds of the model.                                                   *)

\* Number of calls of the public methods in one behaviour.
MaxCalls == 2

\* The same, where the calls draw their payload from PayloadArgs.
MaxPayloadCalls == 1

\* Number of milliseconds the clock may advance.
MaxClock == 1

\* Number of calls in one behaviour, where the calls draw their headers from
\* HeaderArgs.
MaxHeaderCalls == 2

-----------------------------------------------------------------------------
(* JavaScript values.                                                     *)

Undefined == [t |-> "undefined"]
Null == [t |-> "null"]
Bool(b) == [t |-> "bool", b |-> b]
Str(chars) == [t |-> "str", chars |-> chars]
Obj(props) == [t |-> "obj", props |-> props]
\* A string the code built or only passes on, held as a TLA+ string.
Built(s) == [t |-> "built", s |-> s]
Fn(name) == [t |-> "fn", name |-> name]
\* A reference to a headers object of the heap.
Ref(at) == [t |-> "ref", at |-> at]

\* ToBoolean: what `if (x)` and `!x` test.
Truthy(x) ==
    CASE x.t = "undefined" -> FALSE
      [] x.t = "null" -> FALSE
      [] x.t = "bool" -> x.b
      [] x.t = "str" -> x.chars # <<>>
      [] x.t = "built" -> x.s # ""
      [] OTHER -> TRUE

RECURSIVE Cat(_)
\* The string made of a sequence of characters.
Cat(chars) == IF chars = <<>> THEN "" ELSE Head(chars) \o Cat(Tail(chars))

\* ToString as string concatenation (`+`) applies it.
ToStr(x) ==
    CASE x.t = "undefined" -> "undefined"
      [] x.t = "null" -> "null"
      [] x.t = "bool" -> IF x.b THEN "true" ELSE "false"
      [] x.t = "str" -> Cat(x.chars)
      [] x.t = "built" -> x.s
      [] OTHER -> "[object Object]"

-----------------------------------------------------------------------------
(* Objects: a sequence of <<key, value>> properties in insertion order,   *)
(* keys being sequences of characters.                                    *)

Digit == {"0", "1", "2", "3", "4", "5", "6", "7", "8", "9"}

DigitVal(c) ==
    CASE c = "0" -> 0 [] c = "1" -> 1 [] c = "2" -> 2 [] c = "3" -> 3
      [] c = "4" -> 4 [] c = "5" -> 5 [] c = "6" -> 6 [] c = "7" -> 7
      [] c = "8" -> 8 [] c = "9" -> 9

\* A key that is a canonical array index: for-in visits these first, in
\* ascending numeric order, and the other keys after them in insertion order.
IsIndexKey(k) ==
    /\ Len(k) >= 1
    /\ \A i \in 1..Len(k) : k[i] \in Digit
    /\ (Len(k) = 1 \/ k[1] # "0")

RECURSIVE IndexVal(_)
IndexVal(k) ==
    IF k = <<>> THEN 0
    ELSE 10 * IndexVal(SubSeq(k, 1, Len(k) - 1)) + DigitVal(k[Len(k)])

RECURSIVE SortedIndexProps(_, _)
\* The properties of props at the positions in `left`, by ascending index key.
SortedIndexProps(props, left) ==
    IF left = {} THEN <<>>
    ELSE LET m == CHOOSE i \in left :
                      \A j \in left : IndexVal(props[i][1]) <= IndexVal(props[j][1])
         IN <<props[m]>> \o SortedIndexProps(props, left \ {m})

\* The own properties of an object in the order `for (var key in obj)` with
\* hasOwnProperty visits them.
ForIn(props) ==
    LET idx == {i \in 1..Len(props) : IsIndexKey(props[i][1])}
        IsNamed(p) == ~IsIndexKey(p[1])
    IN SortedIndexProps(props, idx) \o SelectSeq(props, IsNamed)

-----------------------------------------------------------------------------
(* encodeURIComponent, toParamString, JSON.stringify.                     *)

\* Characters encodeURIComponent leaves as they are.
Unreserved ==
    Digit \cup {"a", "b", "f", "o", "r", "x", "-", "_", ".", "!", "~", "*", "'", "(", ")"}

\* encodeURIComponent of one character of the model's alphabet.
EncodeChar(c) ==
    CASE c \in Unreserved -> c
      [] c = " " -> "%20"
      [] c = "&" -> "%26"
      [] c = "=" -> "%3D"
      [] c = "?" -> "%3F"
      [] c = "%" -> "%25"
      [] c = "\"" -> "%22"

RECURSIVE encodeURIComponent(_)
encodeURIComponent(chars) ==
    IF chars = <<>> THEN ""
    ELSE EncodeChar(Head(chars)) \o encodeURIComponent(Tail(chars))

RECURSIVE Join(_, _)
\* Array.prototype.join.
Join(parts, sep) ==
    IF parts = <<>> THEN ""
    ELSE IF Len(parts) = 1 THEN parts[1]
    ELSE parts[1] \o sep \o Join(Tail(parts), sep)

\* The key is appended as it is; only the value is encoded.
ParamPart(p) == Cat(p[1]) \o "=" \o encodeURIComponent(p[2].chars)

toParamString(obj) ==
    LET ps == ForIn(obj.props)
    IN Join([i \in 1..Len(ps) |-> ParamPart(ps[i])], "&")

\* JSON.stringify's escaping of one character of a string.
QuoteChar(c) == IF c = "\"" THEN "\\\"" ELSE IF c = "\\" THEN "\\\\" ELSE c

RECURSIVE QuoteChars(_)
QuoteChars(chars) ==
    IF chars = <<>> THEN ""
    ELSE QuoteChar(Head(chars)) \o QuoteChars(Tail(chars))

Quote(chars) == "\"" \o QuoteChars(chars) \o "\""

RECURSIVE JSONstringify(_)
JSONstringify(x) ==
    CASE x.t = "null" -> "null"
      [] x.t = "bool" -> IF x.b THEN "true" ELSE "false"
      [] x.t = "str" -> Quote(x.chars)
      [] x.t = "obj" ->
           LET ps == ForIn(x.props)
           IN "{" \o Join([i \in 1..Len(ps) |->
                              Quote(ps[i][1]) \o ":" \o JSONstringify(ps[i][2])], ",")
                  \o "}"


-----------------------------------------------------------------------------
(* The state of the module and of its environment.                        *)

VARIABLES
    verbose,     \* the module's logging flag
    async_keep,  \* the pending-request table: keep_key -> request object
    now,         \* what new Date().getTime() returns
    heap,        \* the objects the code writes to, by reference: the headers
                 \* objects (header name -> value) and, in the variants, conf
                 \* and the Fetch instance
    xhrs,        \* the XMLHttpRequest objects made so far, by call
    calls,       \* history: the calls of the public methods, in order, each
                 \* with its headers object as the call found it
    cb_log,      \* history: the invocations of callbacks, one per completion
    console      \* history: the lines logged, as [by, line]

vars == <<verbose, async_keep, now, heap, xhrs, calls, cb_log, console>>

\* Whether to send the callback the URL along with the response.
send_url_to_callback == TRUE

\* The headers object the caller keeps and may pass to several calls.
SharedHeaders == "shared"

\* The reference of the headers object made for call id (the default `{ }`
\* or the object literal in the call's argument).
FreshRef(id) == "headers" \o ToString(id)

\* The number of the call being made.
ThisCall == Len(calls) + 1

NoHeaders == <<>>

\* `headers[k]` is truthy.
HasHeader(h, k) == k \in DOMAIN h /\ h[k] # ""

SetHeader(h, k, val) == (k :> val) @@ h

\* A function callers pass as callback either returns or throws.
Throws(name) == name = "fthrow"

-----------------------------------------------------------------------------
(* makeRequestObject and addRequestHeaders.                               *)

\* The module's verbose after the first statement of makeRequestObject.
verboseAfter(args) ==
    IF "verbose" \in DOMAIN args /\ Truthy(args["verbose"]) THEN TRUE ELSE verbose

getDefaultRequestObject(args) ==
    [url |-> Null,
     params |-> Null,
     json |-> Null,
     raw_data |-> Null,
     callback |-> Null,
     send_url |-> Bool(send_url_to_callback),
     verbose |-> Bool(verboseAfter(args)),
     headers |-> Ref(FreshRef(ThisCall))]

\* The value of args[key]: an object literal for headers is a new object.
ArgValue(args, key) ==
    IF args[key].t = "lit" THEN Ref(FreshRef(ThisCall)) ELSE args[key]

\* The request object before addRequestHeaders; id names the call it belongs
\* to (not a field of the code's object).
makeRequestObject(args) ==
    LET proto_req == getDefaultRequestObject(args)
        req_obj == [key \in DOMAIN proto_req |->
                       IF key \in DOMAIN args THEN ArgValue(args, key)
                       ELSE proto_req[key]]
    IN ("keep_key" :> (ToStr(req_obj.url) \o "-" \o ToString(now)))
       @@ ("id" :> ThisCall) @@ req_obj

\* The headers object of the call as makeRequestObject finds it.
HeadersBefore(args) ==
    IF "headers" \notin DOMAIN args THEN NoHeaders
    ELSE IF args["headers"].t = "lit" THEN args["headers"].map
    ELSE heap[args["headers"].at]

\* addRequestHeaders setting X-Requested-With whatever the headers hold.
addRequestHeaders_always(req_obj, h) ==
    LET h1 == SetHeader(h, "X-Requested-With", "XMLHttpRequest")
    IN IF Truthy(req_obj.json) /\ ~HasHeader(h1, "Content-Type")
       THEN SetHeader(h1, "Content-Type", "application/json;charset=UTF-8")
       ELSE IF ~HasHeader(h1, "Content-Type")
       THEN SetHeader(h1, "Content-Type", "application/x-www-form-urlencoded")
       ELSE h1

\* The contents addRequestHeaders leaves in the headers object h of req_obj.
addRequestHeaders(req_obj, h) ==
    LET h1 == IF ~HasHeader(h, "X-Requested-With")
              THEN SetHeader(h, "X-Requested-With", "XMLHttpRequest")
              ELSE h
    IN IF Truthy(req_obj.json) /\ ~HasHeader(h1, "Content-Type")
       THEN SetHeader(h1, "Content-Type", "application/json;charset=UTF-8")
       ELSE IF ~HasHeader(h1, "Content-Type")
       THEN SetHeader(h1, "Content-Type", "application/x-www-form-urlencoded")
       ELSE h1

\* The heap after makeRequestObject(args).
HeapAfter(args) ==
    LET req_obj == makeRequestObject(args)
    IN (req_obj.headers.at :> addRequestHeaders(req_obj, HeadersBefore(args))) @@ heap

\* The lines makeRequestObject logs.
FillingLog(args) ==
    IF verboseAfter(args) THEN {[by |-> ThisCall, line |-> "Filling request key"]} ELSE {}

-----------------------------------------------------------------------------
(* prepGetArgs and prepPostArgs.                                          *)

prepGetArgs(args, verb) ==
    LET req_obj == makeRequestObject(args)
    IN ("verb" :> verb)
       @@ ("open_url" :> IF Truthy(req_obj.params)
                         THEN Built(ToStr(req_obj.url) \o "?" \o toParamString(req_obj.params))
                         ELSE req_obj.url)
       @@ ("send_val" :> Null)
       @@ req_obj

\* The loop stops at the first non-empty option.
SendVal_first(req_obj) ==
    IF Truthy(req_obj.params) THEN Built(toParamString(req_obj.params))
    ELSE IF Truthy(req_obj.json) THEN Built(ToStr(req_obj.json))
    ELSE IF Truthy(req_obj.raw_data) THEN req_obj.raw_data
    ELSE Null

\* The loop over the options in the order params, raw_data, json.
SendVal_json_last(req_obj) ==
    LET s1 == IF Truthy(req_obj.params) THEN Built(toParamString(req_obj.params)) ELSE Null
        s2 == IF Truthy(req_obj.raw_data) THEN req_obj.raw_data ELSE s1
    IN IF Truthy(req_obj.json) THEN Built(JSONstringify(req_obj.json)) ELSE s2

\* The loop over send_opts: each non-empty option in turn replaces send_val.
SendVal(req_obj) ==
    LET s1 == IF Truthy(req_obj.params) THEN Built(toParamString(req_obj.params)) ELSE Null
        s2 == IF Truthy(req_obj.json) THEN Built(JSONstringify(req_obj.json)) ELSE s1
    IN IF Truthy(req_obj.raw_data) THEN req_obj.raw_data ELSE s2

prepPostArgs(args, verb) ==
    LET req_obj == makeRequestObject(args)
    IN ("verb" :> verb)
       @@ ("open_url" :> req_obj.url)
       @@ ("send_val" :> SendVal(req_obj))
       @@ req_obj


-----------------------------------------------------------------------------
(* init, makeRequest and the public methods.                              *)

\* What xhr.send is given: send_val if it is non-empty, nothing otherwise.
SendArg(req_obj) == IF Truthy(req_obj.send_val) THEN req_obj.send_val ELSE Undefined

\* The record of req_obj is in table, under its keep_key.
Stored(req_obj, table) ==
    /\ req_obj.keep_key \in DOMAIN table
    /\ table[req_obj.keep_key].id = req_obj.id

\* The XMLHttpRequest of req_obj after open, setRequestHeader and send, with
\* the keep_key and url its onreadystatechange handler holds.  table is the
\* pending-request table as it is when send is called; the handler is
\* assigned before makeRequest returns, and the request is asynchronous, so
\* no notification is delivered before.
NewXhr(req_obj, headers, table) ==
    [verb |-> req_obj.verb,
     url |-> ToStr(req_obj.open_url),
     headers |-> headers,
     body |-> SendArg(req_obj),
     readyState |-> 1,
     status |-> 0,
     responseText |-> "",
     keep_key |-> req_obj.keep_key,
     req_url |-> req_obj.url,
     stored |-> Stored(req_obj, table),
     handler |-> TRUE]

\* makeRequest sending the request before it stores the record.
makeRequest_send_first(req_obj, headers) ==
    /\ xhrs' = (req_obj.id :> NewXhr(req_obj, headers, async_keep)) @@ xhrs
    /\ async_keep' = (req_obj.keep_key :> req_obj) @@ async_keep

\* headers is the content of req_obj.headers.
makeRequest(req_obj, headers) ==
    LET kept == (req_obj.keep_key :> req_obj) @@ async_keep
    IN /\ async_keep' = kept
       /\ xhrs' = (req_obj.id :> NewXhr(req_obj, headers, kept)) @@ xhrs

\* init without its test of the URL.
init_unchecked(req_obj, headers) == makeRequest(req_obj, headers)

init(req_obj, headers) ==
    IF Truthy(req_obj.url)
    THEN makeRequest(req_obj, headers)
    ELSE UNCHANGED <<async_keep, xhrs>>

\* The lines init and makeRequest log for req_obj when the module's verbose is v.
InitLog(req_obj, v) ==
    IF v
    THEN {[by |-> req_obj.id, line |-> "Initializing call"]}
         \cup (IF Truthy(req_obj.url)
               THEN {[by |-> req_obj.id, line |-> "Making request"]}
               ELSE {[by |-> req_obj.id, line |-> "Aborting HTTP request: no URL"]})
    ELSE {}

\* A public method: prepare the request object of args, then init.
Method(verb, args, req_obj) ==
    /\ verbose' = verboseAfter(args)
    /\ heap' = HeapAfter(args)
    /\ init(req_obj, HeapAfter(args)[req_obj.headers.at])
    /\ console' = console \cup FillingLog(args) \cup InitLog(req_obj, verboseAfter(args))
    /\ calls' = Append(calls, [verb |-> verb, args |-> args, headers |-> HeadersBefore(args)])
    /\ UNCHANGED <<now, cb_log>>

get(args) == Method("get", args, prepGetArgs(args, "get"))

delete(args) == Method("delete", args, prepGetArgs(args, "delete"))

post(args) == Method("post", args, prepPostArgs(args, "post"))

put(args) == Method("put", args, prepPostArgs(args, "put"))

-----------------------------------------------------------------------------
(* onreadystatechange and handleReturn.                                   *)

Delete(f, k) == [x \in DOMAIN f \ {k} |-> f[x]]

\* The callback is always sent the URL.
Invocation_with_url(rec, by, url, response) ==
    [fn |-> rec.callback.name, owner |-> rec.id, by |-> by, args |-> <<response, url>>]

\* The call the callback of the record makes.
Invocation(rec, by, url, response) ==
    [fn |-> rec.callback.name,
     owner |-> rec.id,
     by |-> by,
     args |-> IF Truthy(rec.send_url) THEN <<response, url>> ELSE <<response>>]

\* by names the request whose completion is handled.
handleReturn(by, keep_key, url, response) ==
    IF keep_key \in DOMAIN async_keep
    THEN IF async_keep[keep_key].callback.t = "fn"
         THEN /\ cb_log' = cb_log \cup {Invocation(async_keep[keep_key], by, url, response)}
              /\ async_keep' = IF Throws(async_keep[keep_key].callback.name)
                               THEN async_keep
                               ELSE Delete(async_keep, keep_key)
         ELSE /\ async_keep' = Delete(async_keep, keep_key)
              /\ UNCHANGED cb_log
    ELSE UNCHANGED <<async_keep, cb_log>>

\* The lines handleReturn logs.
ReturnLog(by, keep_key) ==
    (IF verbose THEN {[by |-> by, line |-> "Received response"]} ELSE {})
    \cup {[by |-> by, line |-> "Async keep"]}
    \cup (IF keep_key \in DOMAIN async_keep
          THEN IF ~verbose THEN {}
               ELSE IF async_keep[keep_key].callback.t = "fn"
               THEN {[by |-> by, line |-> "Sending response to callback function"]}
               ELSE {[by |-> by, line |-> "No callback function"]}
          ELSE {[by |-> by, line |-> "HTTP DISASTER"]})

\* The body a request is answered with: none, or one that names the request.
Responses(id) == {"", "response" \o ToString(id)}

\* The handler calling handleReturn only for a response with status 200.
onreadystatechange_ok_only(id, state, status, responseText) ==
    /\ id \in DOMAIN xhrs
    /\ xhrs[id].handler
    /\ xhrs[id].readyState < state
    /\ xhrs' = [xhrs EXCEPT ![id].readyState = state,
                            ![id].status = status,
                            ![id].responseText = responseText]
    /\ IF state = 4 /\ status = 200
       THEN /\ handleReturn(id, xhrs[id].keep_key, xhrs[id].req_url,
                            IF responseText # "" THEN Built(responseText) ELSE Undefined)
            /\ console' = console \cup ReturnLog(id, xhrs[id].keep_key)
       ELSE UNCHANGED <<async_keep, cb_log, console>>
    /\ UNCHANGED <<verbose, now, heap, calls>>

\* The readyState of request id changes to state; at 4 the request has the
\* HTTP status `status` and the response responseText.
onreadystatechange(id, state, status, responseText) ==
    /\ id \in DOMAIN xhrs
    /\ xhrs[id].handler
    /\ xhrs[id].readyState < state
    /\ xhrs' = [xhrs EXCEPT ![id].readyState = state,
                            ![id].status = status,
                            ![id].responseText = responseText]
    /\ IF state = 4
       THEN /\ handleReturn(id, xhrs[id].keep_key, xhrs[id].req_url,
                            IF responseText # "" THEN Built(responseText) ELSE Undefined)
            /\ console' = console \cup ReturnLog(id, xhrs[id].keep_key)
       ELSE UNCHANGED <<async_keep, cb_log, console>>
    /\ UNCHANGED <<verbose, now, heap, calls>>

\* A millisecond passes.
Tick ==
    /\ now < MaxClock
    /\ now' = now + 1
    /\ UNCHANGED <<verbose, async_keep, heap, xhrs, calls, cb_log, console>>

-----------------------------------------------------------------------------
(* The URL-keyed variant of the module (src/unnamed/part_001): get and    *)
(* post only, no headers, no clock, the pending-request table keyed by    *)
(* the URL.  It runs on the same variables; heap and now stay as they are.*)

UrlKeyed_proto_req ==
    [url |-> Null,
     params |-> Null,
     callback |-> Null,
     send_url |-> Bool(send_url_to_callback),
     verbose |-> Bool(FALSE)]

\* id names the call the request object belongs to (not a field of the
\* code's object).
UrlKeyed_makeRequestObject(args, verb) ==
    ("verb" :> verb) @@ ("id" :> ThisCall)
    @@ [key \in DOMAIN UrlKeyed_proto_req |->
           IF key \in DOMAIN args THEN args[key] ELSE UrlKeyed_proto_req[key]]

\* Key and value are both encoded.
UrlKeyed_toParamString(obj) ==
    LET ps == ForIn(obj.props)
    IN Join([i \in 1..Len(ps) |->
                encodeURIComponent(ps[i][1]) \o "=" \o encodeURIComponent(ps[i][2].chars)],
            "&")

\* The module's verbose after the first statement of init.
UrlKeyed_verboseAfter(args) ==
    IF "verbose" \in DOMAIN args THEN Truthy(args["verbose"]) ELSE verbose

\* The XMLHttpRequest of req_obj after open, setRequestHeader and send.
UrlKeyed_NewXhr(req_obj, table) ==
    [verb |-> req_obj.verb,
     url |-> IF req_obj.verb = "get" /\ Truthy(req_obj.params)
             THEN ToStr(req_obj.url) \o "?" \o UrlKeyed_toParamString(req_obj.params)
             ELSE ToStr(req_obj.url),
     headers |-> IF req_obj.verb = "get"
                 THEN ("X-Requested-With" :> "XMLHttpRequest")
                 ELSE ("X-Requested-With" :> "XMLHttpRequest")
                      @@ ("Content-Type" :> "application/x-www-form-urlencoded"),
     body |-> IF req_obj.verb = "post" /\ Truthy(req_obj.params)
              THEN Built(UrlKeyed_toParamString(req_obj.params))
              ELSE Undefined,
     readyState |-> 1,
     status |-> 0,
     responseText |-> "",
     keep_key |-> ToStr(req_obj.url),
     req_url |-> req_obj.url,
     stored |-> ToStr(req_obj.url) \in DOMAIN table /\ table[ToStr(req_obj.url)].id = req_obj.id,
     handler |-> TRUE]

UrlKeyed_makeRequest(req_obj) ==
    LET kept == (ToStr(req_obj.url) :> req_obj) @@ async_keep
    IN /\ async_keep' = kept
       /\ xhrs' = (req_obj.id :> UrlKeyed_NewXhr(req_obj, kept)) @@ xhrs

\* The lines init, makeRequestObject and makeRequest log.
UrlKeyed_InitLog(req_obj, v) ==
    IF v
    THEN {[by |-> req_obj.id, line |-> "Initializing call"],
          [by |-> req_obj.id, line |-> "Filling request key"]}
         \cup (IF Truthy(req_obj.url)
               THEN {[by |-> req_obj.id, line |-> "Making request"]}
               ELSE {[by |-> req_obj.id, line |-> "Aborting HTTP request: no URL"]})
    ELSE {}

\* The history of calls keeps, with each call, the requests in flight when
\* it was made.
UrlKeyed_init(args, verb) ==
    LET req_obj == UrlKeyed_makeRequestObject(args, verb)
    IN /\ verbose' = UrlKeyed_verboseAfter(args)
       /\ IF Truthy(req_obj.url)
          THEN UrlKeyed_makeRequest(req_obj)
          ELSE UNCHANGED <<async_keep, xhrs>>
       /\ console' = console \cup UrlKeyed_InitLog(req_obj, UrlKeyed_verboseAfter(args))
       /\ calls' = Append(calls, [verb |-> verb, args |-> args, headers |-> NoHeaders,
                                  inflight |-> {id \in DOMAIN xhrs : xhrs[id].readyState < 4}])
       /\ UNCHANGED <<now, heap, cb_log>>

UrlKeyed_get(args) == UrlKeyed_init(args, "get")

UrlKeyed_post(args) == UrlKeyed_init(args, "post")

\* With a falsy send_url the code calls the record, an object, instead of
\* its callback: a TypeError is thrown, no callback is invoked and the
\* delete is not reached.
UrlKeyed_handleReturn(by, url, response) ==
    LET k == ToStr(url)
    IN IF k \in DOMAIN async_keep
       THEN IF async_keep[k].callback.t = "fn"
            THEN IF Truthy(async_keep[k].send_url)
                 THEN /\ cb_log' = cb_log \cup {Invocation(async_keep[k], by, url, response)}
                      /\ async_keep' = IF Throws(async_keep[k].callback.name)
                                       THEN async_keep
                                       ELSE Delete(async_keep, k)
                 ELSE UNCHANGED <<async_keep, cb_log>>
            ELSE /\ async_keep' = Delete(async_keep, k)
                 /\ UNCHANGED cb_log
       ELSE UNCHANGED <<async_keep, cb_log>>

\* The lines handleReturn logs, and the error the console reports.
UrlKeyed_ReturnLog(by, url) ==
    LET k == ToStr(url)
    IN (IF verbose THEN {[by |-> by, line |-> "Received response"]} ELSE {})
       \cup (IF k \in DOMAIN async_keep
             THEN (IF ~verbose THEN {}
                   ELSE IF async_keep[k].callback.t = "fn"
                   THEN {[by |-> by, line |-> "Sending response to callback function"]}
                   ELSE {[by |-> by, line |-> "No callback function"]})
                  \cup (IF async_keep[k].callback.t = "fn" /\ ~Truthy(async_keep[k].send_url)
                        THEN {[by |-> by, line |-> "TypeError"]}
                        ELSE {})
             ELSE {[by |-> by, line |-> "HTTP DISASTER"]})

UrlKeyed_onreadystatechange(id, state, status, responseText) ==
    /\ id \in DOMAIN xhrs
    /\ xhrs[id].handler
    /\ xhrs[id].readyState < state
    /\ xhrs' = [xhrs EXCEPT ![id].readyState = state,
                            ![id].status = status,
                            ![id].responseText = responseText]
    /\ IF state = 4
       THEN /\ UrlKeyed_handleReturn(id, xhrs[id].req_url,
                                     IF responseText # "" THEN Built(responseText) ELSE Undefined)
            /\ console' = console \cup UrlKeyed_ReturnLog(id, xhrs[id].req_url)
       ELSE UNCHANGED <<async_keep, cb_log, console>>
    /\ UNCHANGED <<verbose, now, heap, calls>>

-----------------------------------------------------------------------------
(* The shared-config variant of the module (src/unnamed/part_000): get    *)
(* and post fill the one object conf, which the completion of a request   *)
(* reads and resets.  conf is the object of the heap at "conf"; the       *)
(* pending-request table, the clock and the module's verbose are not used.*)

\* The module's verbose, which the code never assigns.
SharedConf_verbose == Null

\* conf with every field null.  owner names the call that supplied the
\* callback (not a field of the code's object).
SharedConf_conf ==
    [url |-> Null, params |-> Null, callback |-> Null, verbose |-> Null,
     method |-> Null, owner |-> Null]

SharedConf_reset == SharedConf_conf

\* conf after init has filled it from obj and, with a URL, set the method.
SharedConf_filled(obj, verb) ==
    LET conf == heap["conf"]
        c1 == [key \in DOMAIN SharedConf_conf |->
                  IF key = "verbose"
                  THEN IF "verbose" \in DOMAIN obj THEN obj["verbose"] ELSE SharedConf_verbose
                  ELSE IF key = "owner"
                  THEN IF "callback" \in DOMAIN obj THEN Built(ToString(ThisCall))
                       ELSE conf.owner
                  ELSE IF key \in DOMAIN obj THEN obj[key] ELSE conf[key]]
    IN IF Truthy(c1.url) THEN [c1 EXCEPT !.method = Built(verb)] ELSE c1

SharedConf_toParamString(obj) == UrlKeyed_toParamString(obj)

\* The XMLHttpRequest makeRequest opens and sends for conf.
SharedConf_NewXhr(conf) ==
    [verb |-> conf.method.s,
     url |-> IF conf.method.s = "get" /\ Truthy(conf.params)
             THEN ToStr(conf.url) \o "?" \o SharedConf_toParamString(conf.params)
             ELSE ToStr(conf.url),
     headers |-> IF conf.method.s = "get"
                 THEN ("X-Requested-With" :> "XMLHttpRequest")
                 ELSE ("X-Requested-With" :> "XMLHttpRequest")
                      @@ ("Content-Type" :> "application/x-www-form-urlencoded"),
     body |-> IF conf.method.s = "post" /\ Truthy(conf.params)
              THEN Built(SharedConf_toParamString(conf.params))
              ELSE Undefined,
     readyState |-> 1,
     status |-> 0,
     responseText |-> "",
     handler |-> TRUE]

SharedConf_makeRequest(conf) ==
    xhrs' = (ThisCall :> SharedConf_NewXhr(conf)) @@ xhrs

\* log prints when conf.verbose is set.
SharedConf_log(conf, by, lines) ==
    IF Truthy(conf.verbose) THEN {[by |-> by, line |-> l] : l \in lines} ELSE {}

SharedConf_init(obj, verb) ==
    LET conf == SharedConf_filled(obj, verb)
    IN /\ heap' = [heap EXCEPT !["conf"] = conf]
       /\ IF Truthy(conf.url)
          THEN SharedConf_makeRequest(conf)
          ELSE UNCHANGED xhrs
       /\ console' = console \cup SharedConf_log(conf, ThisCall,
                          {"Initializing call",
                           IF Truthy(conf.url) THEN "Making request" ELSE "Aborting: no URL"})
       /\ calls' = Append(calls, [verb |-> verb, args |-> obj, headers |-> NoHeaders])
       /\ UNCHANGED <<verbose, async_keep, now, cb_log>>

SharedConf_get(obj) == SharedConf_init(obj, "get")

SharedConf_post(obj) == SharedConf_init(obj, "post")

\* The callback in conf is called with the response; conf is reset unless
\* the call throws, as it does when the callback is no function.
SharedConf_handleReturn(by, response) ==
    LET conf == heap["conf"]
    IN /\ IF Truthy(conf.callback) /\ conf.callback.t = "fn"
          THEN cb_log' = cb_log \cup {[fn |-> conf.callback.name,
                                       owner |-> conf.owner,
                                       by |-> by,
                                       args |-> <<response>>]}
          ELSE UNCHANGED cb_log
       /\ heap' = IF Truthy(conf.callback)
                      /\ (conf.callback.t # "fn" \/ Throws(conf.callback.name))
                  THEN heap
                  ELSE [heap EXCEPT !["conf"] = SharedConf_reset]
       /\ console' = console
              \cup SharedConf_log(conf, by,
                       {"Received response",
                        IF Truthy(conf.callback) THEN "Sending response" ELSE "No callback"})
              \cup (IF Truthy(conf.callback) /\ conf.callback.t # "fn"
                    THEN {[by |-> by, line |-> "TypeError"]} ELSE {})

SharedConf_onreadystatechange(id, state, status, responseText) ==
    /\ id \in DOMAIN xhrs
    /\ xhrs[id].handler
    /\ xhrs[id].readyState < state
    /\ xhrs' = [xhrs EXCEPT ![id].readyState = state,
                            ![id].status = status,
                            ![id].responseText = responseText]
    /\ IF state = 4
       THEN SharedConf_handleReturn(id, IF responseText # "" THEN Built(responseText)
                                        ELSE Undefined)
       ELSE UNCHANGED <<heap, cb_log, console>>
    /\ UNCHANGED <<verbose, async_keep, now, calls>>

-----------------------------------------------------------------------------
(* Fetch (src/fetch.js): one instance, the object of the heap at "this",  *)
(* whose init is called any number of times.                              *)

\* The instance after reset.  owner names the call that supplied the
\* callback (not a field of the code's object).
Fetch_reset == [url |-> Null, callback |-> Null, owner |-> Null]

\* The instance after the first two statements of init.
Fetch_filled(pobj) ==
    [url |-> IF "url" \in DOMAIN pobj THEN pobj["url"] ELSE Null,
     callback |-> IF "callback" \in DOMAIN pobj THEN pobj["callback"] ELSE Null,
     owner |-> IF "callback" \in DOMAIN pobj THEN Built(ToString(ThisCall)) ELSE Null]

\* The request getIt opens and sends, its handler bound to the instance.
Fetch_getIt(this) ==
    /\ xhrs' = (ThisCall :> [verb |-> "GET",
                             url |-> ToStr(this.url),
                             headers |-> ("X-Requested-With" :> "XMLHttpRequest"),
                             body |-> Undefined,
                             readyState |-> 1,
                             status |-> 0,
                             responseText |-> "",
                             handler |-> TRUE]) @@ xhrs
    /\ console' = console \cup {[by |-> ThisCall, line |-> "GETting"]}

Fetch_init(pobj) ==
    LET this == Fetch_filled(pobj)
    IN /\ heap' = [heap EXCEPT !["this"] = this]
       /\ IF Truthy(this.url) /\ Truthy(this.callback)
          THEN Fetch_getIt(this)
          ELSE UNCHANGED <<xhrs, console>>
       /\ calls' = Append(calls, [verb |-> "init", args |-> pobj, headers |-> NoHeaders])
       /\ UNCHANGED <<verbose, async_keep, now, cb_log>>

\* this.callback(response), then this.reset(); the call throws a TypeError
\* when this.callback is no function, and the reset is not reached.
Fetch_handleTheReturn(by, response) ==
    LET this == heap["this"]
    IN IF this.callback.t = "fn"
       THEN /\ cb_log' = cb_log \cup {[fn |-> this.callback.name,
                                        owner |-> this.owner,
                                        by |-> by,
                                        args |-> <<response>>]}
            /\ heap' = IF Throws(this.callback.name)
                       THEN heap
                       ELSE [heap EXCEPT !["this"] = Fetch_reset]
            /\ UNCHANGED console
       ELSE /\ console' = console \cup {[by |-> by, line |-> "TypeError"]}
            /\ UNCHANGED <<heap, cb_log>>

Fetch_onreadystatechange(id, state, status, responseText) ==
    /\ id \in DOMAIN xhrs
    /\ xhrs[id].handler
    /\ xhrs[id].readyState < state
    /\ xhrs' = [xhrs EXCEPT ![id].readyState = state,
                            ![id].status = status,
                            ![id].responseText = responseText]
    /\ IF state = 4 /\ status = 200
       THEN Fetch_handleTheReturn(id, Built(responseText))
       ELSE UNCHANGED <<heap, cb_log, console>>
    /\ UNCHANGED <<verbose, async_keep, now, calls>>

-----------------------------------------------------------------------------
(* The arguments of the calls.                                            *)

\* The objects with the one key, for each value, and the object without it.
Opt(key, values) == {<<>>} \cup {key :> val : val \in values}

With(key, values) == {key :> val : val \in values}

Both(A, B) == {a @@ b : a \in A, b \in B}

U == Str(<<"u">>)

V == Str(<<"v">>)

\* Requests to two URLs: without a callback, with one, with one that throws.
Args == Both(With("url", {U, V}), Opt("callback", {Fn("f1"), Fn("fthrow")}))

\* What the methods that differ from get only in the verb and the body are
\* called with.
OtherArgs == Both(With("url", {U}), With("callback", {Fn("f2")}))

\* Calls without a URL, with a null and with an empty one.
NoUrlArgs ==
    Both(Opt("url", {Null, Str(<<>>)}), With("callback", {Fn("f1")}))
    \cup {("callback" :> Fn("f1")) @@ ("verbose" :> Bool(TRUE))}

\* Calls that set send_url or verbose, or whose callback is no function.
FlagArgs ==
    NoUrlArgs
    \cup Both(With("url", {U}),
              Both(With("callback", {Fn("f1")}), Opt("send_url", {Bool(TRUE), Bool(FALSE)}))
              \cup Both(With("callback", {Fn("f2")}), With("verbose", {Bool(TRUE), Bool(FALSE)}))
              \cup With("callback", {Str(<<"x">>)}))

\* params: empty, the readme's shape, the one of the specification's example,
\* one whose key and value need encoding, and one with array-index keys.
Params ==
    {Obj(<<>>),
     Obj(<< <<(<<"a">>), Str(<<"1">>)>> >>),
     Obj(<< <<(<<"a">>), Str(<<"1">>)>>, <<(<<"b">>), Str(<<"2", " ", "x">>)>> >>),
     Obj(<< <<(<<"a", " ", "b">>), Str(<<"x", "&">>)>> >>),
     Obj(<< <<(<<"2">>), Str(<<"x">>)>>, <<(<<"1">>), Str(<<"b">>)>> >>)}

\* json: false, the empty object, an object with a string that needs escaping.
Jsons ==
    {Bool(FALSE),
     Obj(<<>>),
     Obj(<< <<(<<"f", "o", "o">>), Str(<<"b", "a", "r">>)>>,
            <<(<<"b">>), Str(<<"\"", "x">>)>> >>)}

\* raw_data: the empty string and a string.
Raws == {Str(<<>>), Str(<<"r", "a", "=", " ", "x">>)}

OneParams == Obj(<< <<(<<"a">>), Str(<<"1">>)>> >>)

OneJson == Obj(<< <<(<<"a">>), Str(<<"1">>)>> >>)

OneRaw == Str(<<"r", "a", "=", " ", "x">>)

\* A headers object written in the call.
Lit(map) == [t |-> "lit", map |-> map]

\* Each of params, json and raw_data alone, none of them, and several, also
\* with an empty one after a non-empty one.
Payloads ==
    With("params", Params) \cup With("json", Jsons) \cup With("raw_data", Raws)
    \cup {<<>>}
    \cup Both(With("params", {OneParams}),
              With("json", {OneJson}) \cup With("raw_data", {OneRaw})
              \cup Both(With("json", {OneJson}), With("raw_data", {OneRaw})))
    \cup Both(With("json", {OneJson}), With("raw_data", {OneRaw}))
    \cup {("params" :> OneParams) @@ ("json" :> Bool(FALSE)),
          ("json" :> OneJson) @@ ("raw_data" :> Str(<<>>))}

\* The same with the caller's own headers, in an object of the call or in the
\* one the caller keeps.
PayloadArgs ==
    Both(With("url", {U}),
         Payloads
         \cup Both(With("params", {OneParams}) \cup With("json", {OneJson})
                       \cup With("raw_data", {OneRaw}),
                   With("headers", {Lit([Accept |-> "text/html"]),
                                    Lit(("Content-Type" :> "text/plain")),
                                    Lit(("X-Requested-With" :> "mine")),
                                    Ref(SharedHeaders)})))

\* What delete and put, the code of get and post but for the verb, are
\* called with: each of params, json and raw_data alone.
OtherPayloadArgs ==
    Both(With("url", {U}),
         With("params", Params \ {Obj(<<>>)}) \cup With("json", {OneJson})
         \cup With("raw_data", {OneRaw}))

\* Requests to two URLs, without a callback, with one, and with a callback
\* that is no function.
StatusArgs ==
    Both(With("url", {U, V}), Opt("callback", {Fn("f1")}))
    \cup {("url" :> U) @@ ("callback" :> Str(<<"x">>))}

\* Calls of the URL-keyed variant: with a callback that is and that is not
\* sent the URL, without a callback and without a URL; posts with params.
UrlKeyedArgs ==
    Both(With("url", {U, V}),
         Both(With("callback", {Fn("f1")}), Opt("send_url", {Bool(FALSE)})))
    \cup {("url" :> U), ("callback" :> Fn("f1")) @@ ("verbose" :> Bool(TRUE))}

UrlKeyedPostArgs ==
    Both(With("url", {U}),
         Both(With("callback", {Fn("f2")}), Opt("params", {OneParams})))

\* Calls of the shared-config variant: with and without a URL, a null URL,
\* with and without a callback, one of them verbose; posts with params.
SharedConfArgs ==
    Both(Opt("url", {U, Null}), Opt("callback", {Fn("f1")}))
    \cup {("url" :> V) @@ ("callback" :> Fn("fthrow")) @@ ("verbose" :> Bool(TRUE))}

SharedConfPostArgs ==
    Both(With("url", {U}),
         Both(With("callback", {Fn("f2")}), Opt("params", {OneParams})))

\* What init of Fetch is called with: with and without a URL and a callback.
FetchArgs == Both(Opt("url", {U, V}), Opt("callback", {Fn("f1"), Fn("f2")}))

\* The headers a caller passes: an object of the call that names another
\* header, a Content-Type or an X-Requested-With, the latter two also with
\* the empty string as value, and the object the caller keeps.
CallerHeaders ==
    {Lit([Accept |-> "text/html"]),
     Lit(("Content-Type" :> "text/plain")),
     Lit(("Content-Type" :> "")),
     Lit(("X-Requested-With" :> "mine")),
     Lit(("X-Requested-With" :> "")),
     Ref(SharedHeaders)}

\* Posts of json without and with headers, and a post of params with the
\* headers object the caller keeps.
HeaderArgs ==
    Both(With("url", {U}),
         Both(With("json", {OneJson}), Opt("headers", CallerHeaders))
         \cup Both(With("params", {OneParams}), With("headers", {Ref(SharedHeaders)})))

\* What get, delete and put are called with beside them.
OtherHeaderArgs ==
    Both(With("url", {U}), With("headers", {Ref(SharedHeaders)}))

-----------------------------------------------------------------------------
(* The specifications.                                                    *)

Init ==
    /\ verbose = FALSE
    /\ async_keep = <<>>
    /\ now = 0
    /\ heap = (SharedHeaders :> NoHeaders)
    /\ xhrs = <<>>
    /\ calls = <<>>
    /\ cb_log = {}
    /\ console = {}

\* The HTTP status of a completed request: success or an error.
Statuses == {200, 404}

\* The readyState of a request changes, the request completing with one of
\* statuses.
Notify(statuses) ==
    \E id \in DOMAIN xhrs, state \in 2..4 :
        \E status \in (IF state = 4 THEN statuses ELSE {0}),
           responseText \in (IF state = 4 THEN Responses(id) ELSE {""}) :
            onreadystatechange(id, state, status, responseText)

\* The readyState of a request changes; every request succeeds.
Progress == Notify({200})

\* The readyState of a request changes; a request completes with any status.
ProgressAnyStatus == Notify(Statuses)

\* Concurrent requests to the same and to different URLs.  The clock is
\* read by the calls only, so it stops with them.
Next ==
    \/ \E args \in Args : Len(calls) < MaxCalls /\ get(args)
    \/ \E args \in OtherArgs : Len(calls) < MaxCalls /\ delete(args)
    \/ \E args \in OtherArgs : Len(calls) < MaxCalls /\ post(args)
    \/ \E args \in OtherArgs : Len(calls) < MaxCalls /\ put(args)
    \/ Progress
    \/ Len(calls) < MaxCalls /\ Tick

Spec == Init /\ [][Next]_vars

\* The same, every sent request receiving its notifications in the end.
SpecLive == Init /\ [][Next]_vars /\ WF_vars(Progress)

\* Calls with and without a URL that set send_url and verbose.
NextFlags ==
    \/ \E args \in FlagArgs : Len(calls) < MaxCalls /\ get(args)
    \/ \E args \in OtherArgs : Len(calls) < MaxCalls /\ delete(args)
    \/ \E args \in OtherArgs : Len(calls) < MaxCalls /\ post(args)
    \/ \E args \in NoUrlArgs : Len(calls) < MaxCalls /\ put(args)
    \/ Progress
    \/ Len(calls) < MaxCalls /\ Tick

SpecFlags == Init /\ [][NextFlags]_vars

\* Calls with params, json, raw_data and headers.
NextPayload ==
    \/ \E args \in PayloadArgs : Len(calls) < MaxPayloadCalls /\ get(args)
    \/ \E args \in OtherPayloadArgs : Len(calls) < MaxPayloadCalls /\ delete(args)
    \/ \E args \in PayloadArgs : Len(calls) < MaxPayloadCalls /\ post(args)
    \/ \E args \in OtherPayloadArgs : Len(calls) < MaxPayloadCalls /\ put(args)
    \/ Progress
    \/ Len(calls) < MaxPayloadCalls /\ Tick

SpecPayload == Init /\ [][NextPayload]_vars

\* Calls with the caller's own headers, several with the same headers object,
\* all within one millisecond.
NextHeaders ==
    \/ \E args \in OtherHeaderArgs : Len(calls) < MaxHeaderCalls /\ get(args)
    \/ \E args \in OtherHeaderArgs : Len(calls) < MaxHeaderCalls /\ delete(args)
    \/ \E args \in HeaderArgs : Len(calls) < MaxHeaderCalls /\ post(args)
    \/ \E args \in OtherHeaderArgs : Len(calls) < MaxHeaderCalls /\ put(args)
    \/ Progress

SpecHeaders == Init /\ [][NextHeaders]_vars

\* Requests within one millisecond that complete with any HTTP status.
NextStatus ==
    \/ \E args \in StatusArgs : Len(calls) < MaxCalls /\ get(args)
    \/ \E args \in OtherArgs : Len(calls) < MaxCalls /\ delete(args)
    \/ \E args \in OtherArgs : Len(calls) < MaxCalls /\ post(args)
    \/ \E args \in OtherArgs : Len(calls) < MaxCalls /\ put(args)
    \/ ProgressAnyStatus

SpecStatus == Init /\ [][NextStatus]_vars

\* The readyState of a request of the URL-keyed variant changes.
UrlKeyed_Progress ==
    \E id \in DOMAIN xhrs, state \in 2..4 :
        \E responseText \in (IF state = 4 THEN Responses(id) ELSE {""}) :
            UrlKeyed_onreadystatechange(id, state, 200, responseText)

\* The URL-keyed variant: concurrent requests to the same and to different
\* URLs.
NextUrlKeyed ==
    \/ \E args \in UrlKeyedArgs : Len(calls) < MaxCalls /\ UrlKeyed_get(args)
    \/ \E args \in UrlKeyedPostArgs : Len(calls) < MaxCalls /\ UrlKeyed_post(args)
    \/ UrlKeyed_Progress

SpecUrlKeyed == Init /\ [][NextUrlKeyed]_vars

\* The shared-config variant when it is loaded: conf with every field null.
InitSharedConf ==
    /\ verbose = FALSE
    /\ async_keep = <<>>
    /\ now = 0
    /\ heap = ("conf" :> SharedConf_conf)
    /\ xhrs = <<>>
    /\ calls = <<>>
    /\ cb_log = {}
    /\ console = {}

\* The readyState of a request of the shared-config variant changes.
SharedConf_Progress ==
    \E id \in DOMAIN xhrs, state \in 2..4 :
        \E responseText \in (IF state = 4 THEN Responses(id) ELSE {""}) :
            SharedConf_onreadystatechange(id, state, 200, responseText)

\* The shared-config variant: calls while requests are in flight and after.
NextSharedConf ==
    \/ \E obj \in SharedConfArgs : Len(calls) < MaxCalls /\ SharedConf_get(obj)
    \/ \E obj \in SharedConfPostArgs : Len(calls) < MaxCalls /\ SharedConf_post(obj)
    \/ SharedConf_Progress

SpecSharedConf == InitSharedConf /\ [][NextSharedConf]_vars

\* The instance `new Fetch()` makes: init({ }) leaves url and callback null.
InitFetch ==
    /\ verbose = FALSE
    /\ async_keep = <<>>
    /\ now = 0
    /\ heap = ("this" :> Fetch_reset)
    /\ xhrs = <<>>
    /\ calls = <<>>
    /\ cb_log = {}
    /\ console = {}

\* The readyState of a request of the instance changes.
Fetch_Progress ==
    \E id \in DOMAIN xhrs, state \in 2..4 :
        \E status \in (IF state = 4 THEN Statuses ELSE {0}),
           responseText \in (IF state = 4 THEN Responses(id) ELSE {""}) :
            Fetch_onreadystatechange(id, state, status, responseText)

\* Calls of init on the one instance and the notifications of its requests.
NextFetch ==
    \/ \E pobj \in FetchArgs : Len(calls) < MaxCalls /\ Fetch_init(pobj)
    \/ Fetch_Progress

SpecFetch == InitFetch /\ [][NextFetch]_vars

-----------------------------------------------------------------------------
(* What the claims speak of.                                              *)

\* The requests that were sent, and those whose completion was handled.
Sent == DOMAIN xhrs

Done(id) == id \in Sent /\ xhrs[id].readyState = 4

\* The value the config of call id gives key, undefined if it has none.
Config(id, key) ==
    IF key \in DOMAIN calls[id].args THEN calls[id].args[key] ELSE Undefined

HasCallback(id) == Config(id, "callback").t = "fn"

\* The response the completion of request id hands to handleReturn.
ResponseOf(id) ==
    IF xhrs[id].responseText # "" THEN Built(xhrs[id].responseText) ELSE Undefined

\* The records of call id in the pending-request table.
RecordsOf(id) == {k \in DOMAIN async_keep : async_keep[k].id = id}

\* The lines that are logged only when verbose is set.
VerboseLines ==
    {"Filling request key", "Initializing call", "Making request",
     "Aborting HTTP request: no URL", "Received response",
     "Sending response to callback function", "No callback function"}

\* The config of call id sets key to a non-empty value.
Sets(id, key) == Truthy(Config(id, key))

\* The only one of params, json and raw_data the config of call id sets.
SetsOnly(id, key) ==
    \A k \in {"params", "json", "raw_data"} : Sets(id, k) <=> k = key

\* The headers the caller passed to call id name a Content-Type.
CallerContentType(id) == HasHeader(calls[id].headers, "Content-Type")

\* The body of request id as text.
BodyText(id) == IF xhrs[id].body = Undefined THEN "" ELSE ToStr(xhrs[id].body)

\* key=value pairs joined by &, key and value percent-encoded.
FormEncode(props) ==
    Join([i \in 1..Len(props) |->
             encodeURIComponent(props[i][1]) \o "=" \o encodeURIComponent(props[i][2].chars)],
         "&")

-----------------------------------------------------------------------------
(* The claims.                                                            *)

\* C1: of two requests to the same URL, the completion of each invokes the
\* callback of its own record with its own response, also when both were
\* issued in the same millisecond.
C1_NoCrossTalk ==
    \A a \in Sent, b \in Sent :
        (a # b /\ Config(a, "url") = Config(b, "url")) =>
            /\ \A e \in cb_log :
                   e.by = a => (e.owner = a /\ e.args[1] = ResponseOf(a))
            /\ (Done(a) /\ HasCallback(a)) =>
                   \E e \in cb_log : e.by = a /\ e.owner = a

\* C2: the record of a sent request is in async_keep, under its key, until
\* its completion is handled, and is gone once it has been handled.
C2_RecordKept ==
    \A id \in Sent :
        /\ xhrs[id].readyState < 4 =>
               (/\ xhrs[id].keep_key \in DOMAIN async_keep
                /\ async_keep[xhrs[id].keep_key].id = id)
        /\ Done(id) => RecordsOf(id) = {}

\* C3: once the completion of a request with a function callback has been
\* delivered, its callback has been invoked exactly once.
C3_CallbackOnce ==
    \A id \in Sent :
        (Done(id) /\ HasCallback(id)) =>
            Cardinality({e \in cb_log : e.owner = id}) = 1

\* C4: a call whose config has no url, a null or an empty one, opens no
\* request, adds no record and never has its callback invoked.
C4_NoUrlNoRequest ==
    \A id \in 1..Len(calls) :
        ~Sets(id, "url") =>
            /\ id \notin Sent
            /\ RecordsOf(id) = {}
            /\ \A e \in cb_log : e.owner # id

\* A call without a URL between a request and its completion, the callback
\* of the request invoked.
C4_Witness ==
    /\ Len(calls) = 2
    /\ Done(1)
    /\ Config(2, "url") = Null
    /\ Config(2, "callback") = Fn("f1")
    /\ \E e \in cb_log : e.owner = 1

\* C5: the callback is invoked with (response, url) when the record's
\* send_url is true, which it is when the config omits it, and with
\* (response) when it is false.
C5_SendUrl ==
    \A e \in cb_log :
        LET send_url == IF "send_url" \in DOMAIN calls[e.owner].args
                        THEN Config(e.owner, "send_url")
                        ELSE Bool(TRUE)
        IN /\ send_url = Bool(TRUE) =>
                  e.args = <<ResponseOf(e.by), Config(e.by, "url")>>
           /\ send_url = Bool(FALSE) => e.args = <<ResponseOf(e.by)>>

\* A callback invoked without the URL, one with it for a config that sets
\* send_url, and one with it for a config that omits send_url.
C5_Witness ==
    /\ \E e \in cb_log :
           /\ Config(e.owner, "send_url") = Bool(FALSE)
           /\ Len(e.args) = 1
    /\ \E e \in cb_log :
           /\ Config(e.owner, "send_url") = Undefined
           /\ e.args = <<Built("response" \o ToString(e.by)), U>>

\* C6: a call whose config omits verbose or sets it to false logs no
\* verbose line, neither when it is prepared and sent nor when its
\* completion is handled.
C6_VerboseThisCallOnly ==
    \A id \in 1..Len(calls) :
        Config(id, "verbose") # Bool(TRUE) =>
            \A l \in console : l.by = id => l.line \notin VerboseLines

\* C7, as claimed: a post or put whose config has json and neither params nor
\* raw_data, the caller naming no Content-Type, sends the JSON serialization
\* of json as application/json;charset=UTF-8, whatever the value of json.
C7_AnyJson ==
    \A id \in Sent :
        (/\ calls[id].verb \in {"post", "put"}
         /\ "json" \in DOMAIN calls[id].args
         /\ ~Sets(id, "params")
         /\ ~Sets(id, "raw_data")
         /\ ~CallerContentType(id)) =>
            /\ xhrs[id].body = Built(JSONstringify(Config(id, "json")))
            /\ xhrs[id].headers["Content-Type"] = "application/json;charset=UTF-8"

\* C7, amended: a post or put that sets only json, to a non-empty value, the
\* caller naming no Content-Type, sends the JSON serialization of json as
\* application/json;charset=UTF-8.
C7_JsonBody ==
    \A id \in Sent :
        (/\ calls[id].verb \in {"post", "put"}
         /\ SetsOnly(id, "json")
         /\ ~CallerContentType(id)) =>
            /\ xhrs[id].body = Built(JSONstringify(Config(id, "json")))
            /\ xhrs[id].headers["Content-Type"] = "application/json;charset=UTF-8"

\* A post of the object {foo: "bar", b: "\"x"} alone.
C7_Witness ==
    \E id \in Sent :
        /\ calls[id].verb = "post"
        /\ SetsOnly(id, "json")
        /\ ~CallerContentType(id)
        /\ xhrs[id].body = Built("{\"foo\":\"bar\",\"b\":\"\\\"x\"}")
        /\ xhrs[id].headers["Content-Type"] = "application/json;charset=UTF-8"

\* C8: a post or put that sets only params sends the form-encoded params as
\* application/x-www-form-urlencoded.
C8_ParamsBody ==
    \A id \in Sent :
        (/\ calls[id].verb \in {"post", "put"}
         /\ SetsOnly(id, "params")) =>
            /\ BodyText(id) = FormEncode(ForIn(Config(id, "params").props))
            /\ xhrs[id].headers["Content-Type"] = "application/x-www-form-urlencoded"

\* C9: a post or put that sets only raw_data, the caller naming no
\* Content-Type, sends raw_data as it is and with no Content-Type header.
C9_RawBody ==
    \A id \in Sent :
        (/\ calls[id].verb \in {"post", "put"}
         /\ SetsOnly(id, "raw_data")
         /\ ~CallerContentType(id)) =>
            /\ xhrs[id].body = Config(id, "raw_data")
            /\ "Content-Type" \notin DOMAIN xhrs[id].headers

\* C10: a get or delete with non-empty params opens url?query, the query being
\* the key=value pairs in insertion order joined by &, key and value
\* percent-encoded, and sends no body.
C10_QueryString ==
    \A id \in Sent :
        (/\ calls[id].verb \in {"get", "delete"}
         /\ Sets(id, "params")
         /\ Config(id, "params").props # <<>>) =>
            /\ xhrs[id].url =
                   ToStr(Config(id, "url")) \o "?" \o FormEncode(Config(id, "params").props)
            /\ xhrs[id].body = Undefined

\* C11, as claimed: a sent request carries the caller's X-Requested-With if
\* the caller's headers have one, whatever its value, and XMLHttpRequest
\* otherwise; it carries the caller's Content-Type if the caller's headers
\* have one.
C11_AnyCallerHeader ==
    \A id \in Sent :
        LET h == calls[id].headers
        IN /\ xhrs[id].headers["X-Requested-With"] =
                  IF "X-Requested-With" \in DOMAIN h THEN h["X-Requested-With"]
                  ELSE "XMLHttpRequest"
           /\ "Content-Type" \in DOMAIN h =>
                  xhrs[id].headers["Content-Type"] = h["Content-Type"]

\* C11, amended: a sent request carries the caller's X-Requested-With if the
\* caller's headers have a non-empty one and XMLHttpRequest otherwise; it
\* carries the caller's Content-Type if the caller's headers have a
\* non-empty one.
C11_CallerHeaders ==
    \A id \in Sent :
        LET h == calls[id].headers
        IN /\ xhrs[id].headers["X-Requested-With"] =
                  IF HasHeader(h, "X-Requested-With") THEN h["X-Requested-With"]
                  ELSE "XMLHttpRequest"
           /\ HasHeader(h, "Content-Type") =>
                  xhrs[id].headers["Content-Type"] = h["Content-Type"]

\* One request sent with the caller's X-Requested-With, another with the
\* caller's Content-Type and the default X-Requested-With.
C11_Witness ==
    /\ \E id \in Sent :
           /\ calls[id].headers = ("X-Requested-With" :> "mine")
           /\ xhrs[id].headers["X-Requested-With"] = "mine"
    /\ \E id \in Sent :
           /\ calls[id].headers = ("Content-Type" :> "text/plain")
           /\ Sets(id, "json")
           /\ xhrs[id].headers["Content-Type"] = "text/plain"
           /\ xhrs[id].headers["X-Requested-With"] = "XMLHttpRequest"

\* C12: every sent request receiving its completion notification in the end,
\* the pending-request table is empty from some time on.
C12_EventuallyEmpty == <>[](async_keep = <<>>)

\* The completion of request id was handled without a record: the diagnostic
\* is logged.
Lost(id) == [by |-> id, line |-> "HTTP DISASTER"] \in console

\* C13: a completion that finds no record under its key logs the diagnostic,
\* invokes no callback and leaves the table as it is; a completion that
\* finds a record removes it.  So every request ends COMPLETED or LOST.
C13_CompletedOrLost ==
    [][\A id \in Sent :
          (xhrs[id].readyState < 4 /\ xhrs'[id].readyState = 4) =>
              LET k == xhrs[id].keep_key
              IN IF k \in DOMAIN async_keep
                 THEN k \notin DOMAIN async_keep' /\ ~Lost(id)'
                 ELSE /\ Lost(id)'
                      /\ cb_log' = cb_log
                      /\ async_keep' = async_keep]_vars

\* C14: every notification of readyState 4 is handled and, if the record
\* found has a function callback, invokes it with the response, undefined if
\* the body is empty, whatever the status; an earlier readyState invokes no
\* callback.
C14_EveryCompletion ==
    [][\A id \in Sent :
          LET k == xhrs[id].keep_key
          IN /\ (xhrs[id].readyState < 4 /\ xhrs'[id].readyState = 4) =>
                    /\ [by |-> id, line |-> "Async keep"] \in console'
                    /\ (k \in DOMAIN async_keep /\ async_keep[k].callback.t = "fn") =>
                           \E e \in cb_log' \ cb_log :
                               /\ e.by = id
                               /\ e.owner = async_keep[k].id
                               /\ e.args[1] = IF xhrs'[id].responseText = ""
                                              THEN Undefined
                                              ELSE Built(xhrs'[id].responseText)
             /\ (xhrs[id].readyState < xhrs'[id].readyState /\ xhrs'[id].readyState < 4) =>
                    cb_log' = cb_log]_vars

\* A request answered 404 with an empty body, its callback invoked with an
\* undefined response.
C14_Witness ==
    \E id \in Sent :
        /\ Done(id)
        /\ xhrs[id].status = 404
        /\ xhrs[id].responseText = ""
        /\ \E e \in cb_log : e.by = id /\ e.owner = id /\ e.args[1] = Undefined

\* The completion of request id has been handled.
Handled(id) == [by |-> id, line |-> "Async keep"] \in console

\* C15: the record of a request is in the table when the request is sent,
\* and its handler is registered before a notification is delivered: no
\* completion is handled whose record had not been stored.
C15_StoredBeforeSent ==
    /\ \A id \in Sent : xhrs[id].stored /\ xhrs[id].handler
    /\ \A id \in 1..Len(calls) : Handled(id) => (id \in Sent /\ xhrs[id].stored)

\* Two requests, the completion of each handled.
C15_Witness ==
    /\ Len(calls) = 2
    /\ \A id \in 1..2 : id \in Sent /\ Handled(id) /\ xhrs[id].stored

\* The options among params, json and raw_data the config of call id has.
Given(id) == {k \in {"params", "json", "raw_data"} : k \in DOMAIN calls[id].args}

\* C16: of several of params, json and raw_data, the last non-empty one in
\* that order supplies the body, and the inferred Content-Type is
\* application/json;charset=UTF-8 if json is non-empty and
\* application/x-www-form-urlencoded otherwise.
C16_LastNonEmpty ==
    \A id \in Sent :
        (calls[id].verb \in {"post", "put"} /\ Cardinality(Given(id)) > 1) =>
            /\ BodyText(id) =
                   IF Sets(id, "raw_data") THEN ToStr(Config(id, "raw_data"))
                   ELSE IF Sets(id, "json") THEN JSONstringify(Config(id, "json"))
                   ELSE IF Sets(id, "params") THEN toParamString(Config(id, "params"))
                   ELSE ""
            /\ ~CallerContentType(id) =>
                   xhrs[id].headers["Content-Type"] =
                       IF Sets(id, "json") THEN "application/json;charset=UTF-8"
                       ELSE "application/x-www-form-urlencoded"

\* A post of json and raw_data: raw_data is the body, the Content-Type that
\* of json.
C16_Witness ==
    \E id \in Sent :
        /\ calls[id].verb = "post"
        /\ Given(id) = {"json", "raw_data"}
        /\ xhrs[id].body = OneRaw
        /\ xhrs[id].headers["Content-Type"] = "application/json;charset=UTF-8"

\* The requests sent whose completion has not been handled.
InFlight == {id \in Sent : xhrs[id].readyState < 4}

\* C17: every record in the table is that of a request in flight, and there
\* are no more records than requests in flight.
C17_RecordsInFlight ==
    /\ \A k \in DOMAIN async_keep : async_keep[k].id \in InFlight
    /\ Cardinality(DOMAIN async_keep) <= Cardinality(InFlight)

\* C18: once a callback has thrown, the record it was invoked from is no
\* longer in the table.
C18_ThrowingCallback ==
    \A e \in cb_log : Throws(e.fn) => RecordsOf(e.owner) = {}

\* C19: a call leaves the headers object the caller keeps as it was, and of
\* two posts with that object, the first of json only and the second of
\* params only, the second is sent as application/x-www-form-urlencoded.
C19_HeadersUnchanged ==
    /\ heap[SharedHeaders] = NoHeaders
    /\ \A a \in Sent, b \in Sent :
           (/\ a < b
            /\ calls[a].verb = "post" /\ calls[b].verb = "post"
            /\ Config(a, "headers") = Ref(SharedHeaders)
            /\ Config(b, "headers") = Ref(SharedHeaders)
            /\ SetsOnly(a, "json")
            /\ SetsOnly(b, "params")) =>
               xhrs[b].headers["Content-Type"] = "application/x-www-form-urlencoded"

\* In the URL-keyed variant, a and b are requests to the same URL, b sent
\* while a was in flight, and no other request to that URL was sent.
SharedSlot(a, b) ==
    /\ a < b
    /\ xhrs[a].keep_key = xhrs[b].keep_key
    /\ a \in calls[b].inflight
    /\ \A c \in Sent \ {a, b} : xhrs[c].keep_key # xhrs[a].keep_key

\* C20: of two requests of the URL-keyed variant to the same URL in flight at
\* once, the slot holds the record of the later call; the first completion
\* invokes the later call's callback with its own response and deletes the
\* slot; the second completion finds no record and invokes no callback.
C20_SharedSlot ==
    \A a \in Sent, b \in Sent :
        SharedSlot(a, b) =>
            LET k == xhrs[a].keep_key
                by == {e \in cb_log : e.by \in {a, b}}
                first == {e \in cb_log :
                             /\ e.by \in {a, b}
                             /\ e.owner = b
                             /\ e.args[1] = ResponseOf(e.by)}
            IN IF ~Done(a) /\ ~Done(b)
               THEN k \in DOMAIN async_keep /\ async_keep[k].id = b /\ by = {}
               ELSE /\ k \notin DOMAIN async_keep
                    /\ by = first
                    /\ Cardinality(by) = IF HasCallback(b) THEN 1 ELSE 0
                    /\ (Done(a) /\ Done(b)) =>
                           \E id \in {a, b} : [by |-> id, line |-> "HTTP DISASTER"] \in console

\* C21: in the URL-keyed variant, the completion of a request whose config
\* has a function callback and send_url false invokes the callback with the
\* response only and removes the record.
C21_ResponseOnly ==
    \A id \in Sent :
        (Done(id) /\ HasCallback(id) /\ Config(id, "send_url") = Bool(FALSE)) =>
            /\ \E e \in cb_log : e.by = id /\ e.args = <<ResponseOf(id)>>
            /\ xhrs[id].keep_key \notin DOMAIN async_keep

\* C22: in the shared-config variant, every completion invokes the callback
\* of the call that issued the request, none if that call supplied none, and
\* every field of conf is null whenever no request is in flight.
C22_InOrder ==
    /\ \A e \in cb_log : e.owner = Built(ToString(e.by))
    /\ \A id \in Sent :
           Done(id) => (HasCallback(id) <=> \E e \in cb_log : e.by = id)
    /\ InFlight = {} => heap["conf"] = SharedConf_conf

\* C23: in the shared-config variant, a call whose config has no url opens
\* no request, and its callback is never invoked.
C23_NoUrlNoRequest ==
    \A id \in 1..Len(calls) :
        ~Sets(id, "url") =>
            /\ id \notin Sent
            /\ \A e \in cb_log : e.owner # Built(ToString(id))

\* handleTheReturn has run for request id: it has called the callback or
\* failed to.
Ran(id) ==
    \/ \E e \in cb_log : e.by = id
    \/ [by |-> id, line |-> "TypeError"] \in console

\* C24: in Fetch, the callback of the instance is a function whenever
\* handleTheReturn runs, and handleTheReturn runs only for a completion with
\* readyState 4 and status 200.
C24_CallbackChecked ==
    /\ \A l \in console : l.line # "TypeError"
    /\ \A id \in Sent : Ran(id) => (xhrs[id].readyState = 4 /\ xhrs[id].status = 200)

=============================================================================
